---- MODULE Spec2Model ----
(***************************************************************************)
(* GPy/kern/src/rbf.py: the RBF kernel and its two "kernel kernel"         *)
(* variants (RBFKernelKernel, RBFDistanceBuilderKernelKernel).             *)
(*                                                                         *)
(* A kernel object is a record of its attributes (self).  Real numbers are *)
(* exact rationals <<num, den>>; the values drawn for lengthscale and      *)
(* inv_l are squares of rationals, so that 1/sqrt(.) is exact.  The radial *)
(* core works on terms c * exp(-k/2) with the float64 underflow of np.exp. *)
(***************************************************************************)
EXTENDS Integers, Sequences, FiniteSets, TLC

VARIABLES self, ctor, last, cache, inputs, builder

vars == <<self, ctor, last, cache, inputs, builder>>

(***************************************************************************)
(* Bounds of the model.                                                    *)
(***************************************************************************)
\* lengthscale values are the rationals p/q with p, q in 1..MaxScale, inv_l
\* values their squares
MaxScale == 2
\* gradients written by the base class / psi collaborator lie in -MaxGrad..MaxGrad
MaxGrad == 1
\* variance values 1..MaxVariance
MaxVariance == 2
\* lengthscales 1..MaxStep written between distance requests
MaxStep == 2
\* scaled distances r in 0..MaxR handed to the radial core
MaxR == 40

(***************************************************************************)
(* Exact rational arithmetic standing for the float arithmetic of numpy.   *)
(***************************************************************************)
Abs(x) == IF x < 0 THEN -x ELSE x

RECURSIVE GCD(_, _)
GCD(a, b) == IF b = 0 THEN a ELSE GCD(b, a % b)

\* the rational n/d in lowest terms with a positive denominator (d # 0)
Rat(n, d) ==
    LET s == IF d < 0 THEN -1 ELSE 1
        g == GCD(Abs(n), Abs(d))
    IN  <<(s * n) \div g, (s * d) \div g>>

Zero == Rat(0, 1)
One == Rat(1, 1)
RInt(n) == Rat(n, 1)

RMul(a, b) == Rat(a[1] * b[1], a[2] * b[2])
RDiv(a, b) == Rat(a[1] * b[2], a[2] * b[1])
RAdd(a, b) == Rat(a[1] * b[2] + b[1] * a[2], a[2] * b[2])
RNeg(a) == Rat(-a[1], a[2])
RCube(a) == RMul(a, RMul(a, a))
RSquare(a) == RMul(a, a)

\* integer square root of a perfect square
ISqrt(n) == CHOOSE k \in 0..n : k * k = n

\* np.sqrt on the square of a rational
RSqrt(a) == Rat(ISqrt(a[1]), ISqrt(a[2]))

\* inv_l + 1e-200 in float64: inv_l is kept positive by its Logexp transform
\* and the guard 1e-200 is below the resolution of a float64 at every
\* inv_l >= 1e-184, so the sum rounds to inv_l.
AddEps(v) == v

\* 1. / np.sqrt(inv_l + 1e-200)
InvSqrtEps(v) == RDiv(One, RSqrt(AddEps(v)))

\* dict.update: the entries of g laid over those of f
Update(f, g) == [k \in DOMAIN f \cup DOMAIN g |-> IF k \in DOMAIN g THEN g[k] ELSE f[k]]

NoValue == "None"

\* how a call ends: it returns m, or raises e
Value(m) == [kind |-> "value", val |-> m]
Raise(e) == [kind |-> "error", err |-> e]

(***************************************************************************)
(* Values the constructor arguments and the optimizer's writes range over. *)
(***************************************************************************)
Scales == {Rat(p, q) : p \in 1..MaxScale, q \in 1..MaxScale}
InvScales == {RSquare(x) : x \in Scales}
Grads == {RInt(g) : g \in -MaxGrad..MaxGrad}
Variances == {RInt(v) : v \in 1..MaxVariance}
Classes == {"GPy.kern.RBF", "GPy.kern.RBFKernelKernel", "GPy.kern.RBFDistanceBuilderKernelKernel"}
KernelKernels == Classes \ {"GPy.kern.RBF"}

(***************************************************************************)
(* Construction.                                                           *)
(***************************************************************************)
\* Stationary.__init__ (with Kern.__init__): the attributes and the two linked
\* parameters variance and lengthscale, their gradient slots at 0.
Stationary_init(a) ==
    [input_dim |-> a.input_dim, active_dims |-> NoValue, name |-> a.name,
     useGPU |-> a.useGPU, ARD |-> a.ARD,
     variance |-> a.variance, lengthscale |-> a.lengthscale,
     variance_gradient |-> Zero, lengthscale_gradient |-> Zero,
     parameters |-> <<"variance", "lengthscale">>]

\* unlink_parameter / link_parameter on the list of optimizable parameters
unlink_parameter(ps, p) == SelectSeq(ps, LAMBDA x : x # p)
link_parameter(ps, p) == Append(ps, p)

\* a constructor that sets the flag but keeps lengthscale linked beside inv_l
RBF_init_keeps_lengthscale(a) ==
    LET o == Stationary_init(a)
    IN  Update(o, [psicomp |-> IF o.useGPU THEN "PSICOMP_RBF_GPU" ELSE "PSICOMP_RBF",
                   use_invLengthscale |-> a.inv_l]
                  @@ (IF a.inv_l
                      THEN [inv_l |-> RDiv(One, RSquare(o.lengthscale)), inv_l_gradient |-> Zero,
                            parameters |-> link_parameter(o.parameters, "inv_lengthscale")]
                      ELSE << >>))

\* RBF.__init__
RBF_init(a) ==
    LET o == Stationary_init(a)
    IN  Update(o, [psicomp |-> IF o.useGPU THEN "PSICOMP_RBF_GPU" ELSE "PSICOMP_RBF",
                   use_invLengthscale |-> a.inv_l]
                  @@ (IF a.inv_l
                      THEN [inv_l |-> RDiv(One, RSquare(o.lengthscale)), inv_l_gradient |-> Zero,
                            parameters |-> link_parameter(
                                unlink_parameter(o.parameters, "lengthscale"), "inv_lengthscale")]
                      ELSE << >>))

\* RBFKernelKernel.__init__
RBFKernelKernel_init(a) ==
    Update(RBF_init(a), [dist_metric |-> a.distance_metric])

\* RBFDistanceBuilderKernelKernel.__init__ (asserts input_dim == 1)
RBFDistanceBuilderKernelKernel_init(a) ==
    Update(RBF_init(a), [distance_builder |-> a.distance_builder, n_models |-> a.n_models])

\* the keyword parameters of each constructor that have no default
RequiredArgs(class) ==
    CASE class = "GPy.kern.RBF" -> {"input_dim"}
      [] class = "GPy.kern.RBFKernelKernel" -> {"distance_metric"}
      [] class = "GPy.kern.RBFDistanceBuilderKernelKernel" -> {"distance_builder"}

\* the defaults of the constructors' other parameters (lengthscale=None is 1.)
DefaultArgs(class) ==
    [variance |-> One, lengthscale |-> One, ARD |-> FALSE, useGPU |-> FALSE, inv_l |-> FALSE,
     active_dims |-> NoValue]
    @@ (CASE class = "GPy.kern.RBF" -> [name |-> "rbf"]
          [] class = "GPy.kern.RBFKernelKernel" ->
                [name |-> "kernel_kernel", input_dim |-> 1, dm_kwargs_dict |-> NoValue]
          [] class = "GPy.kern.RBFDistanceBuilderKernelKernel" ->
                [name |-> "rbf_db_kernel_kernel", input_dim |-> 1, n_models |-> 0])

\* class(**kw): a call of the constructor with keyword arguments kw
Construct(class, kw) ==
    IF ~(RequiredArgs(class) \subseteq DOMAIN kw)
    THEN Raise("TypeError")
    ELSE LET a == Update(DefaultArgs(class), kw)
         IN  Value(Update([class |-> class],
                    CASE class = "GPy.kern.RBF" -> RBF_init(a)
                      [] class = "GPy.kern.RBFKernelKernel" -> RBFKernelKernel_init(a)
                      [] class = "GPy.kern.RBFDistanceBuilderKernelKernel" ->
                            RBFDistanceBuilderKernelKernel_init(a)))

(***************************************************************************)
(* Parameter sync and gradients.                                           *)
(***************************************************************************)
\* Stationary.parameters_changed (the base-class step): nothing of the kernel's
\* attributes changes; the step sees the lengthscale it is handed.
super_parameters_changed(o) == [obj |-> o, super_saw |-> o.lengthscale]

\* a sync that runs after the base-class step
parameters_changed_late(o) ==
    LET b == super_parameters_changed(o)
    IN  [obj |-> IF b.obj.use_invLengthscale
                 THEN [b.obj EXCEPT !.lengthscale = InvSqrtEps(b.obj.inv_l)]
                 ELSE b.obj,
         super_saw |-> b.super_saw]

\* RBF.parameters_changed
parameters_changed(o) ==
    LET synced == IF o.use_invLengthscale
                  THEN [o EXCEPT !.lengthscale = InvSqrtEps(o.inv_l)]
                  ELSE o
    IN  super_parameters_changed(synced)

\* Stationary.update_gradients_full / update_gradients_diag (the base-class
\* step): the variance and lengthscale gradient slots hold g.dvar and g.dlen
\* when it returns.
super_update_gradients(o, g) ==
    [o EXCEPT !.variance_gradient = g.dvar, !.lengthscale_gradient = g.dlen]

\* d(lengthscale)/d(inv_l) = lengthscale ** 3 / -2.
ChainRule(l) == RDiv(RCube(l), RInt(-2))

\* a projection that adds to the inv_l slot
update_gradients_full_adds(o, g) ==
    LET b == super_update_gradients(o, g)
    IN  IF b.use_invLengthscale
        THEN [b EXCEPT !.inv_l_gradient =
                 RAdd(o.inv_l_gradient, RMul(b.lengthscale_gradient, ChainRule(b.lengthscale)))]
        ELSE b

\* RBF.update_gradients_full
update_gradients_full(o, g) ==
    LET b == super_update_gradients(o, g)
    IN  IF b.use_invLengthscale
        THEN [b EXCEPT !.inv_l_gradient =
                 RMul(b.lengthscale_gradient, ChainRule(b.lengthscale))]
        ELSE b

\* RBF.update_gradients_diag
update_gradients_diag(o, g) ==
    LET b == super_update_gradients(o, g)
    IN  IF b.use_invLengthscale
        THEN [b EXCEPT !.inv_l_gradient =
                 RMul(b.lengthscale_gradient, ChainRule(b.lengthscale))]
        ELSE b

\* RBF.update_gradients_expectations; g is what psiDerivativecomputations returns
update_gradients_expectations(o, g) ==
    LET b == [o EXCEPT !.variance_gradient = g.dvar, !.lengthscale_gradient = g.dlen]
    IN  IF b.use_invLengthscale
        THEN [b EXCEPT !.inv_l_gradient = RMul(g.dlen, ChainRule(b.lengthscale))]
        ELSE b

(***************************************************************************)
(* Serialization.                                                          *)
(***************************************************************************)
\* Stationary._save_to_input_dict: the base-class fields
save_to_input_dict(o) ==
    [input_dim |-> o.input_dim, active_dims |-> o.active_dims, name |-> o.name,
     variance |-> o.variance, lengthscale |-> o.lengthscale, ARD |-> o.ARD]

\* RBF.to_dict, RBFKernelKernel.to_dict, RBFDistanceBuilderKernelKernel.to_dict:
\* the three bodies differ in the class string alone
to_dict(o) ==
    LET input_dict == Update(save_to_input_dict(o),
                             [class |-> o.class, inv_l |-> o.use_invLengthscale])
    IN  IF input_dict.inv_l
        THEN Update(input_dict, [lengthscale |-> RSqrt(RDiv(One, o.inv_l))])
        ELSE input_dict

\* Kern.from_dict: the class named by "class" called with the other entries
from_dict(d) ==
    Construct(d.class, [k \in DOMAIN d \ {"class"} |-> d[k]])

\* RBF.__getstate__: the base class copies the attributes
getstate(o) ==
    LET dc == o
    IN  IF o.useGPU THEN Update(dc, [psicomp |-> "PSICOMP_RBF", useGPU |-> FALSE]) ELSE dc

\* RBF.__setstate__ on the fresh object pickle makes: the flag is cleared, then
\* the base class lays the pickled attributes over the object's
setstate(state) ==
    LET fresh == [use_invLengthscale |-> FALSE]
    IN  Update(fresh, state)

(***************************************************************************)
(* Distances.  An input is a column of integers (X.flatten()): features of *)
(* dimension 1, or model indices.  Arguments x, x2 are the names of input  *)
(* objects (x2 may be None), ins maps a name to the object's content.  A   *)
(* matrix is a sequence of rows.                                           *)
(***************************************************************************)
\* scipy's cdist metric on rows of one feature
Metric(name, a, b) ==
    CASE name = "cityblock" -> RInt(Abs(a - b))
      [] name = "sqeuclidean" -> RInt((a - b) * (a - b))

\* cdist(X, X2, metric)
cdist(X, X2, name) ==
    [i \in 1..Len(X) |-> [j \in 1..Len(X2) |-> Metric(name, X[i], X2[j])]]

\* RBFKernelKernel._unscaled_dist
KernelKernel_unscaled_dist(o, ins, x, x2) ==
    LET X == ins[x]
        X2 == IF x2 = NoValue THEN X ELSE ins[x2]
    IN  Value(cdist(X, X2, o.dist_metric))

\* distance_builder.get_kernel(n_models): the leading n_models x n_models
\* block of the builder's array t (a numpy slice never reaches past the array)
get_kernel(t, n) ==
    IF t.ndim # 2
    THEN [ndim |-> t.ndim, rows |-> t.rows]
    ELSE LET nr == IF n < Len(t.rows) THEN n ELSE Len(t.rows)
         IN  [ndim |-> 2,
              rows |-> [i \in 1..nr |->
                          SubSeq(t.rows[i], 1, IF n < Len(t.rows[i]) THEN n ELSE Len(t.rows[i]))]]

\* r.shape of a 2-d array
NRows(r) == Len(r.rows)
NCols(r) == IF Len(r.rows) = 0 THEN 0 ELSE Len(r.rows[1])

\* numpy integer indexing along an axis of length n: an index in -n..-1 counts
\* from the end, one outside -n..n-1 raises IndexError
InAxis(i, n) == -n <= i /\ i < n
Pos(i, n) == IF i < 0 THEN i + n + 1 ELSE i + 1

\* a lookup that leaves X2 = None unresolved (an empty column set)
DistanceBuilder_unscaled_dist_no_default(o, t, ins, x, x2) ==
    LET X == ins[x]
        Y == IF x2 = NoValue THEN << >> ELSE ins[x2]
        r == get_kernel(t, o.n_models)
    IN  IF ~(r.ndim = 2 /\ NRows(r) = NCols(r))
        THEN Raise("AssertionError")
        ELSE IF \E i \in 1..Len(X) : ~InAxis(X[i], NRows(r))
        THEN Raise("IndexError")
        ELSE IF \E j \in 1..Len(Y) : ~InAxis(Y[j], NCols(r))
        THEN Raise("IndexError")
        ELSE Value([i \in 1..Len(X) |-> [j \in 1..Len(Y) |->
                        RInt(r.rows[Pos(X[i], NRows(r))][Pos(Y[j], NCols(r))])]])

\* RBFDistanceBuilderKernelKernel._unscaled_dist; t is the builder's array
DistanceBuilder_unscaled_dist(o, t, ins, x, x2) ==
    LET X == ins[x]
        Y == IF x2 = NoValue THEN X ELSE ins[x2]
        r == get_kernel(t, o.n_models)
    IN  IF ~(r.ndim = 2 /\ NRows(r) = NCols(r))
        THEN Raise("AssertionError")
        ELSE IF \E i \in 1..Len(X) : ~InAxis(X[i], NRows(r))
        THEN Raise("IndexError")
        ELSE IF \E j \in 1..Len(Y) : ~InAxis(Y[j], NCols(r))
        THEN Raise("IndexError")
        ELSE Value([i \in 1..Len(X) |-> [j \in 1..Len(Y) |->
                        RInt(r.rows[Pos(X[i], NRows(r))][Pos(Y[j], NCols(r))])]])

\* self._unscaled_dist(X, X2), dispatched on the class
unscaled_dist(o, t, ins, x, x2) ==
    IF o.class = "GPy.kern.RBFKernelKernel"
    THEN KernelKernel_unscaled_dist(o, ins, x, x2)
    ELSE DistanceBuilder_unscaled_dist(o, t, ins, x, x2)

\* matrix / scalar
MatDiv(m, l) == [i \in DOMAIN m |-> [j \in DOMAIN m[i] |-> RDiv(m[i][j], l)]]

\* a scaled distance whose ARD branch divides by the squared lengthscale
scaled_dist_ard_squared(o, t, ins, x, x2) ==
    LET r == unscaled_dist(o, t, ins, x, x2)
    IN  IF r.kind = "error" THEN r
        ELSE IF o.ARD
        THEN Value(MatDiv(r.val, RSquare(o.lengthscale)))
        ELSE Value(MatDiv(r.val, o.lengthscale))

\* the body of _scaled_dist (both kernel kernels), without its cache
scaled_dist(o, t, ins, x, x2) ==
    LET r == unscaled_dist(o, t, ins, x, x2)
    IN  IF r.kind = "error" THEN r
        ELSE IF o.ARD
        THEN Value(MatDiv(r.val, o.lengthscale))
        ELSE Value(MatDiv(r.val, o.lengthscale))

(***************************************************************************)
(* Cache_this(limit=3, ignore_args=()): the cache of _scaled_dist, keyed by *)
(* the identities of (self, X, X2).  An entry is [X, X2, changed, out],     *)
(* oldest first; X and X2 are the names of input objects (X2 may be None).  *)
(***************************************************************************)
limit == 3

Find(c, x, x2) == {i \in 1..Len(c) : c[i].X = x /\ c[i].X2 = x2}

\* a notification that marks nothing
on_cache_changed_ignored(c) == c

\* Cacher.on_cache_changed for the kernel itself: every entry has self in it
on_cache_changed(c) == [i \in 1..Len(c) |-> [c[i] EXCEPT !.changed = TRUE]]

\* Cacher.__call__ with the inputs named x, x2, whose operation would end in
\* fresh: the cache afterwards, how the call ends, and where the value came from
Cacher_call(c, x, x2, fresh) ==
    LET hit == Find(c, x, x2)
    IN  IF hit # {} /\ \A i \in hit : ~c[i].changed
        THEN [cache |-> c, ret |-> Value(c[CHOOSE i \in hit : TRUE].out), served |-> "hit"]
        ELSE IF fresh.kind = "error"
        THEN [cache |-> << >>, ret |-> fresh, served |-> "raised"]
        ELSE IF hit # {}
        THEN [cache |-> [i \in 1..Len(c) |->
                            IF i \in hit THEN [c[i] EXCEPT !.changed = FALSE, !.out = fresh.val]
                            ELSE c[i]],
              ret |-> fresh, served |-> "recomputed"]
        ELSE [cache |-> Append(IF Len(c) = limit THEN Tail(c) ELSE c,
                               [X |-> x, X2 |-> x2, changed |-> FALSE, out |-> fresh.val]),
              ret |-> fresh, served |-> "computed"]

(***************************************************************************)
(* The radial core.  A value is a term c * exp(-k/2): [c, k] with c a      *)
(* rational and k = r^2.  np.exp underflows to 0. in float64 below         *)
(* exp(-745.13...), so exp(-k/2) is 0. for every k above ExpUnderflow.     *)
(***************************************************************************)
ExpUnderflow == 1490

Term(c, k) == IF c = Zero THEN [c |-> Zero, k |-> 0] ELSE [c |-> c, k |-> k]

\* np.exp(-0.5 * r ** 2)
ExpNegHalfSq(r) == IF r * r > ExpUnderflow THEN Term(Zero, 0) ELSE Term(One, r * r)

\* rational * term
Scale(q, t) == Term(RMul(q, t.c), t.k)

\* a < b for two terms that are 0 or share their coefficient
TermLess(a, b) ==
    IF a.c = Zero THEN b.c[1] > 0
    ELSE IF b.c = Zero THEN a.c[1] < 0
    ELSE a.c = b.c /\ ((a.c[1] > 0 /\ a.k > b.k) \/ (a.c[1] < 0 /\ a.k < b.k))

\* RBF.K_of_r
K_of_r(o, r) == Scale(o.variance, ExpNegHalfSq(r))

\* RBF.dK_dr
dK_dr(o, r) == Scale(RInt(-r), K_of_r(o, r))

\* a second derivative with the sign of its factor turned
dK2_drdr_flipped(o, r) == Scale(RInt(1 - r * r), K_of_r(o, r))

\* RBF.dK2_drdr
dK2_drdr(o, r) == Scale(RInt(r * r - 1), K_of_r(o, r))

\* RBF.dK2_drdr_diag
dK2_drdr_diag(o) == Term(RNeg(o.variance), 0)

(***************************************************************************)
(* The state machine.                                                      *)
(*   self     the kernel's attributes                                      *)
(*   ctor     the class and the inv_l argument the kernel was built with   *)
(*   last     the last call made: its name, arguments and outcome          *)
(*   cache    the cache of self._scaled_dist                               *)
(*   inputs   the input objects: name -> column                            *)
(*   builder  the array the distance builder holds                         *)
(***************************************************************************)
Metrics == {"cityblock", "sqeuclidean"}

\* the distance builder's arrays: two symmetric tables, a 2 x 3 one, a vector
Table3 == [ndim |-> 2, rows |-> << <<0, 1, 2>>, <<1, 0, 3>>, <<2, 3, 0>> >>]
Table3b == [ndim |-> 2, rows |-> << <<0, 4, 5>>, <<4, 0, 6>>, <<5, 6, 0>> >>]
TableWide == [ndim |-> 2, rows |-> << <<0, 1, 2>>, <<1, 0, 3>> >>]
TableFlat == [ndim |-> 1, rows |-> << <<0, 1, 2>> >>]
Tables == {Table3, Table3b, TableWide, TableFlat}
ModelCounts == {2, 3}

\* the input objects of a run
InputsPlain == [Xa |-> <<0, 1>>, Xb |-> <<2, 0>>]
InputsSigned == [Xa |-> <<0, 1>>, Xb |-> <<2, 0>>, Xc |-> <<-1>>]

\* the keyword arguments a kernel of the class may be built with
CtorArgs(class) ==
    LET common == [variance : Variances, lengthscale : Scales, ARD : BOOLEAN,
                   useGPU : BOOLEAN, inv_l : BOOLEAN]
        own == CASE class = "GPy.kern.RBF" -> [input_dim : {1}]
                 [] class = "GPy.kern.RBFKernelKernel" -> [distance_metric : Metrics]
                 [] class = "GPy.kern.RBFDistanceBuilderKernelKernel" ->
                       [distance_builder : {"builder"}, n_models : ModelCounts]
    IN  {Update(c, w) : c \in common, w \in own}

Built(class, kw) ==
    /\ self = Construct(class, kw).val
    /\ ctor = [class |-> class, inv_l |-> kw.inv_l]
    /\ last = [op |-> "__init__"]
    /\ cache = << >>

\* any kernel of any of the three classes
Init ==
    /\ \E class \in Classes : \E kw \in CtorArgs(class) :
          /\ kw.variance = One
          /\ class = "GPy.kern.RBFKernelKernel" => kw.distance_metric = "cityblock"
          /\ class = "GPy.kern.RBFDistanceBuilderKernelKernel" => kw.n_models = 3
          /\ Built(class, kw)
    /\ inputs = InputsPlain
    /\ builder = Table3

\* the optimizer writes the linked lengthscale parameter (inv_l in
\* inverse-lengthscale mode): the write notifies the kernel's observers, the
\* cache first, then parameters_changed
WriteParameter(v) ==
    /\ LET written == IF self.use_invLengthscale
                      THEN [self EXCEPT !.inv_l = v]
                      ELSE [self EXCEPT !.lengthscale = v]
           pc == parameters_changed(written)
       IN  /\ self' = pc.obj
           /\ last' = [op |-> "parameters_changed", before |-> written.lengthscale,
                       super_saw |-> pc.super_saw]
    /\ cache' = on_cache_changed(cache)
    /\ UNCHANGED <<ctor, inputs, builder>>

OptimizerWrite ==
    \E v \in IF self.use_invLengthscale THEN InvScales ELSE Scales : WriteParameter(v)

\* parameters_changed called on its own
ParametersChanged ==
    /\ LET pc == parameters_changed(self)
       IN  /\ self' = pc.obj
           /\ last' = [op |-> "parameters_changed", before |-> self.lengthscale,
                       super_saw |-> pc.super_saw]
    /\ UNCHANGED <<ctor, cache, inputs, builder>>

\* what the base-class step (or the psi collaborator) leaves in the two slots
GradInputs == [dvar : {Zero, One}, dlen : Grads]

BeforeGradient == IF self.use_invLengthscale THEN self.inv_l_gradient ELSE Zero

UpdateGradientsFull ==
    /\ \E g \in GradInputs :
          /\ self' = update_gradients_full(self, g)
          /\ last' = [op |-> "update_gradients_full", before |-> BeforeGradient]
    /\ UNCHANGED <<ctor, cache, inputs, builder>>

UpdateGradientsDiag ==
    /\ \E g \in GradInputs :
          /\ self' = update_gradients_diag(self, g)
          /\ last' = [op |-> "update_gradients_diag", before |-> BeforeGradient]
    /\ UNCHANGED <<ctor, cache, inputs, builder>>

UpdateGradientsExpectations ==
    /\ \E g \in GradInputs :
          /\ self' = update_gradients_expectations(self, g)
          /\ last' = [op |-> "update_gradients_expectations", before |-> BeforeGradient]
    /\ UNCHANGED <<ctor, cache, inputs, builder>>

ToDict ==
    /\ last' = [op |-> "to_dict", out |-> to_dict(self)]
    /\ UNCHANGED <<self, ctor, cache, inputs, builder>>

\* the dictionary just produced is used to build a kernel, which takes the
\* original's place when the constructor accepts it
FromDict ==
    /\ last.op = "to_dict"
    /\ LET k == from_dict(last.out)
       IN  IF k.kind = "value"
           THEN /\ self' = k.val
                /\ ctor' = [class |-> last.out.class, inv_l |-> last.out.inv_l]
                /\ cache' = << >>
                /\ last' = [op |-> "from_dict", result |-> "ok", original |-> self]
           ELSE /\ last' = [op |-> "from_dict", result |-> k.err, original |-> self]
                /\ UNCHANGED <<self, ctor, cache>>
    /\ UNCHANGED <<inputs, builder>>

GetState ==
    /\ last' = [op |-> "__getstate__", out |-> getstate(self)]
    /\ UNCHANGED <<self, ctor, cache, inputs, builder>>

\* pickle.loads of the state just taken: the unpickled kernel takes the
\* original's place, with a cache of its own
SetState ==
    /\ last.op = "__getstate__"
    /\ self' = setstate(last.out)
    /\ cache' = << >>
    /\ last' = [op |-> "__setstate__", original |-> self]
    /\ UNCHANGED <<ctor, inputs, builder>>

Next ==
    \/ OptimizerWrite
    \/ ParametersChanged
    \/ UpdateGradientsFull
    \/ UpdateGradientsDiag
    \/ UpdateGradientsExpectations
    \/ ToDict
    \/ FromDict
    \/ GetState
    \/ SetState

Spec == Init /\ [][Next]_vars

(***************************************************************************)
(* Scaled distances through the cache.                                     *)
(***************************************************************************)
\* the argument pairs (X, X2) the callers of _unscaled_dist pass
CallArgs == (DOMAIN inputs) \X ((DOMAIN inputs) \cup {NoValue})

\* the argument pairs _scaled_dist is called with: four, one more than the
\* cache holds
ScaledCallArgs == {<<"Xa", NoValue>>, <<"Xa", "Xb">>, <<"Xb", NoValue>>, <<"Xb", "Xa">>}

\* self._scaled_dist(X, X2) as callers reach it, through Cache_this
ScaledDistCall ==
    /\ self.class \in KernelKernels
    /\ \E a \in ScaledCallArgs :
          LET r == Cacher_call(cache, a[1], a[2],
                               scaled_dist(self, builder, inputs, a[1], a[2]))
          IN  /\ cache' = r.cache
              /\ last' = [op |-> "_scaled_dist", X |-> a[1], X2 |-> a[2], ret |-> r.ret,
                          served |-> r.served]
    /\ UNCHANGED <<self, ctor, inputs, builder>>

\* self._unscaled_dist(X, X2), which has no cache
UnscaledDistCall ==
    /\ self.class \in KernelKernels
    /\ \E a \in CallArgs :
          last' = [op |-> "_unscaled_dist", X |-> a[1], X2 |-> a[2],
                   ret |-> unscaled_dist(self, builder, inputs, a[1], a[2])]
    /\ UNCHANGED <<self, ctor, cache, inputs, builder>>

\* a kernel kernel of either class over a fixed distance table
InitDist ==
    /\ \E class \in KernelKernels : \E kw \in CtorArgs(class) :
          /\ kw.variance = One
          /\ kw.lengthscale = One
          /\ ~kw.useGPU
          /\ class = "GPy.kern.RBFDistanceBuilderKernelKernel" => kw.n_models = 3
          /\ Built(class, kw)
    /\ inputs = InputsPlain
    /\ builder = Table3

\* the optimizer moves the lengthscale between 1..MaxStep (inv_l between their
\* inverse squares) while distances are requested
LengthscaleChange ==
    \E n \in 1..MaxStep :
        WriteParameter(IF self.use_invLengthscale THEN Rat(1, n * n) ELSE RInt(n))

NextDist ==
    \/ ScaledDistCall
    \/ LengthscaleChange

SpecDist == InitDist /\ [][NextDist]_vars

(***************************************************************************)
(* The distance-builder kernel while its builder changes.                  *)
(***************************************************************************)
\* the distance builder is handed new distances (it is no parameter of the
\* kernel: nothing is notified)
BuilderUpdate ==
    /\ \E t \in Tables \ {builder} : builder' = t
    /\ last' = [op |-> "builder_update"]
    /\ UNCHANGED <<self, ctor, cache, inputs>>

\* kern.n_models = n, a plain attribute
SetNModels ==
    /\ \E n \in ModelCounts \ {self.n_models} : self' = [self EXCEPT !.n_models = n]
    /\ last' = [op |-> "set_n_models"]
    /\ UNCHANGED <<ctor, cache, inputs, builder>>

\* a distance-builder kernel and its cache while the builder changes
InitStale ==
    /\ \E kw \in CtorArgs("GPy.kern.RBFDistanceBuilderKernelKernel") :
          /\ kw.variance = One
          /\ kw.lengthscale = RInt(2)
          /\ ~kw.useGPU /\ ~kw.inv_l /\ ~kw.ARD
          /\ Built("GPy.kern.RBFDistanceBuilderKernelKernel", kw)
    /\ inputs = InputsPlain
    /\ builder \in {Table3, Table3b}

NextStale ==
    \/ ScaledDistCall
    \/ BuilderUpdate
    \/ SetNModels

SpecStale == InitStale /\ [][NextStale]_vars

\* the lookup of a distance-builder kernel, on any array the builder holds
InitBuilder ==
    /\ \E kw \in CtorArgs("GPy.kern.RBFDistanceBuilderKernelKernel") :
          /\ kw.variance = One
          /\ kw.lengthscale = One
          /\ ~kw.useGPU /\ ~kw.inv_l /\ ~kw.ARD
          /\ Built("GPy.kern.RBFDistanceBuilderKernelKernel", kw)
    /\ inputs = InputsSigned
    /\ builder \in Tables

NextBuilder ==
    \/ UnscaledDistCall
    \/ BuilderUpdate
    \/ SetNModels

SpecBuilder == InitBuilder /\ [][NextBuilder]_vars

(***************************************************************************)
(* The radial core, evaluated at r in 0..MaxR.                             *)
(***************************************************************************)

Eval_K_of_r ==
    /\ \E r \in 0..MaxR : last' = [op |-> "K_of_r", r |-> r, ret |-> K_of_r(self, r)]
    /\ UNCHANGED <<self, ctor, cache, inputs, builder>>

Eval_dK_dr ==
    /\ \E r \in 0..MaxR : last' = [op |-> "dK_dr", r |-> r, ret |-> dK_dr(self, r)]
    /\ UNCHANGED <<self, ctor, cache, inputs, builder>>

Eval_dK2_drdr ==
    /\ \E r \in 0..MaxR : last' = [op |-> "dK2_drdr", r |-> r, ret |-> dK2_drdr(self, r)]
    /\ UNCHANGED <<self, ctor, cache, inputs, builder>>

Eval_dK2_drdr_diag ==
    /\ last' = [op |-> "dK2_drdr_diag", ret |-> dK2_drdr_diag(self)]
    /\ UNCHANGED <<self, ctor, cache, inputs, builder>>

InitRadial ==
    /\ \E class \in Classes : \E kw \in CtorArgs(class) :
          /\ kw.lengthscale = One
          /\ ~kw.ARD /\ ~kw.useGPU /\ ~kw.inv_l
          /\ class = "GPy.kern.RBFKernelKernel" => kw.distance_metric = "cityblock"
          /\ class = "GPy.kern.RBFDistanceBuilderKernelKernel" => kw.n_models = 3
          /\ Built(class, kw)
    /\ inputs = InputsPlain
    /\ builder = Table3

NextRadial ==
    \/ Eval_K_of_r
    \/ Eval_dK_dr
    \/ Eval_dK2_drdr
    \/ Eval_dK2_drdr_diag

SpecRadial == InitRadial /\ [][NextRadial]_vars

(***************************************************************************)
(* Properties.                                                             *)
(***************************************************************************)
Range(f) == {f[i] : i \in DOMAIN f}

\* the unscaled distance of the last call's arguments, computed now
UnscaledNow == unscaled_dist(self, builder, inputs, last.X, last.X2)

\* C1 (SpecDist): whatever requests and lengthscale changes came before, a
\* call of _scaled_dist returns the unscaled distance of its arguments divided
\* by the lengthscale the kernel has at the call, whether the value is served
\* from the cache, recomputed over a stale entry or computed for a new entry.
C1_ScaledDistIsCurrent ==
    last.op = "_scaled_dist" =>
        /\ last.ret.kind = "value"
        /\ last.ret.val = MatDiv(UnscaledNow.val, self.lengthscale)

\* C1 witness: a value served from the cache at a lengthscale other than the
\* constructed one, in a full cache that still holds an entry made stale by a
\* lengthscale change.
C1_Witness ==
    /\ last.op = "_scaled_dist"
    /\ last.served = "hit"
    /\ self.lengthscale # One
    /\ Len(cache) = limit
    /\ \E i \in 1..Len(cache) : cache[i].changed

\* C2 (SpecStale): a call of _scaled_dist returns the lookup into the table
\* the builder holds now (for the n_models set now) divided by lengthscale,
\* also when the builder or n_models changed since the same inputs were
\* last passed.
C2_BuilderChangeResetsCache ==
    (last.op = "_scaled_dist"
        /\ scaled_dist(self, builder, inputs, last.X, last.X2).kind = "value") =>
        last.ret = scaled_dist(self, builder, inputs, last.X, last.X2)

\* C3 (Spec): in inverse-lengthscale mode inv_l = 1/lengthscale^2 in every
\* state; when parameters_changed has run, lengthscale is
\* 1/sqrt(inv_l + 1e-200) and the base-class step saw that synced value; in
\* native mode parameters_changed leaves lengthscale as it was.
C3_LengthscaleSync ==
    /\ self.use_invLengthscale =>
          self.inv_l = RDiv(One, RSquare(self.lengthscale))
    /\ (last.op = "parameters_changed" /\ self.use_invLengthscale) =>
          /\ self.lengthscale = RDiv(One, RSqrt(AddEps(self.inv_l)))
          /\ last.super_saw = self.lengthscale
    /\ (last.op = "parameters_changed" /\ ~self.use_invLengthscale) =>
          self.lengthscale = last.before

\* C3 witness: parameters_changed ran in inverse-lengthscale mode after inv_l
\* was written, and moved lengthscale.
C3_Witness ==
    /\ last.op = "parameters_changed"
    /\ self.use_invLengthscale
    /\ last.before # self.lengthscale

\* C4 (Spec): the dictionary to_dict returns carries class, inv_l, lengthscale
\* and every argument the class's constructor requires, and the kernel built
\* from it has the original's class, mode, effective lengthscale and distance
\* computation.
C4_ToDictRebuilds ==
    /\ last.op = "to_dict" =>
          ({"class", "inv_l", "lengthscale"} \cup RequiredArgs(self.class))
              \subseteq DOMAIN last.out
    /\ last.op = "from_dict" =>
          /\ last.result = "ok"
          /\ self.class = last.original.class
          /\ self.use_invLengthscale = last.original.use_invLengthscale
          /\ self.lengthscale = last.original.lengthscale
          /\ self.class = "GPy.kern.RBFKernelKernel" =>
                self.dist_metric = last.original.dist_metric
          /\ self.class = "GPy.kern.RBFDistanceBuilderKernelKernel" =>
                /\ self.distance_builder = last.original.distance_builder
                /\ self.n_models = last.original.n_models

\* the table the lookup reads, and whether the last call's indices lie in it
TableNow == get_kernel(builder, self.n_models)
SquareTable == TableNow.ndim = 2 /\ NRows(TableNow) = NCols(TableNow)
LastX == inputs[last.X]
LastX2 == IF last.X2 = NoValue THEN inputs[last.X] ELSE inputs[last.X2]
InTable(col) == \A i \in 1..Len(col) : 0 <= col[i] /\ col[i] < NRows(TableNow)

\* C5 (SpecBuilder): on a square table and indices inside it,
\* _unscaled_dist(X, X2) returns the matrix with table[X[i]][X2[j]] at (i, j),
\* X2 = None standing for X2 = X.
C5_LookupEntries ==
    (last.op = "_unscaled_dist" /\ SquareTable /\ InTable(LastX) /\ InTable(LastX2)) =>
        /\ last.ret.kind = "value"
        /\ Len(last.ret.val) = Len(LastX)
        /\ \A i \in 1..Len(LastX) :
              /\ Len(last.ret.val[i]) = Len(LastX2)
              /\ \A j \in 1..Len(LastX2) :
                    last.ret.val[i][j] = RInt(TableNow.rows[LastX[i] + 1][LastX2[j] + 1])

\* C5 witness: a self-distance lookup (X2 = None) of two indices in a square
\* table.
C5_Witness ==
    /\ last.op = "_unscaled_dist"
    /\ last.X2 = NoValue
    /\ Len(LastX) = 2
    /\ SquareTable /\ InTable(LastX)
    /\ last.ret.kind = "value"

\* C6 (SpecBuilder): _unscaled_dist ends in an error whenever the table is not
\* a square 2-d matrix or an index of X or X2 lies outside 0..n-1.
C6_FailsFast ==
    (last.op = "_unscaled_dist" /\ ~(SquareTable /\ InTable(LastX) /\ InTable(LastX2))) =>
        last.ret.kind = "error"

GradientOps == {"update_gradients_full", "update_gradients_diag", "update_gradients_expectations"}

\* C7 (Spec): when a gradient update has run in inverse-lengthscale mode,
\* inv_l.gradient is the lengthscale gradient that call left, times
\* lengthscale^3 / -2, whatever the slot held before; in native mode the
\* kernel has no inv_l gradient.
C7_InvGradientProjected ==
    /\ (last.op \in GradientOps /\ self.use_invLengthscale) =>
          self.inv_l_gradient =
              RMul(self.lengthscale_gradient, RDiv(RCube(self.lengthscale), RInt(-2)))
    /\ ~self.use_invLengthscale => "inv_l_gradient" \notin DOMAIN self

\* C7 witness: update_gradients_full replaced a nonzero inv_l gradient by a
\* different nonzero one.
C7_Witness ==
    /\ last.op = "update_gradients_full"
    /\ self.use_invLengthscale
    /\ last.before # Zero
    /\ self.inv_l_gradient # Zero
    /\ self.inv_l_gradient # last.before

\* what C8 says of each evaluation, but for monotonicity
RadialIdentities ==
    /\ (last.op = "K_of_r" /\ last.r = 0) => last.ret = Term(self.variance, 0)
    /\ last.op = "dK_dr" =>
          /\ last.ret = Scale(RInt(-last.r), K_of_r(self, last.r))
          /\ last.r = 0 => last.ret = Term(Zero, 0)
    /\ last.op = "dK2_drdr" =>
          /\ last.ret = Scale(RInt(last.r * last.r - 1), K_of_r(self, last.r))
          /\ last.r = 0 => last.ret = Term(RNeg(self.variance), 0)
    /\ last.op = "dK2_drdr_diag" =>
          /\ last.ret = Term(RNeg(self.variance), 0)
          /\ last.ret = dK2_drdr(self, 0)

\* C8 as stated (SpecRadial): the identities, and K_of_r strictly decreasing
\* in r.
C8_StrictlyDecreasing ==
    /\ RadialIdentities
    /\ last.op = "K_of_r" =>
          \A r2 \in 0..MaxR : last.r < r2 => TermLess(K_of_r(self, r2), last.ret)

\* C8 amended (SpecRadial): the identities; K_of_r never increases with r,
\* decreases strictly up to the largest r whose exp(-r^2/2) is not 0. in
\* float64, and is 0. at every r beyond.
C8_DecreasingUntilUnderflow ==
    /\ RadialIdentities
    /\ last.op = "K_of_r" =>
          /\ \A r2 \in 0..MaxR : last.r < r2 => ~TermLess(last.ret, K_of_r(self, r2))
          /\ \A r2 \in 0..MaxR :
                (last.r < r2 /\ r2 * r2 <= ExpUnderflow) =>
                    TermLess(K_of_r(self, r2), last.ret)
          /\ last.r * last.r > ExpUnderflow => last.ret = Term(Zero, 0)

\* C8 witness: K_of_r evaluated where np.exp has underflowed.
C8_Witness ==
    /\ last.op = "K_of_r"
    /\ last.r * last.r > ExpUnderflow
    /\ last.ret = Term(Zero, 0)

C10_ModeFixed ==
    /\ self.use_invLengthscale = ctor.inv_l
    /\ self.use_invLengthscale <=> "inv_lengthscale" \in Range(self.parameters)
    /\ self.use_invLengthscale <=> "lengthscale" \notin Range(self.parameters)
    /\ self.use_invLengthscale <=> "inv_l" \in DOMAIN self

\* C10 witness: a kernel in inverse-lengthscale mode came back from a pickle
\* round trip.
C10_Witness ==
    /\ last.op = "__setstate__"
    /\ self.use_invLengthscale
    /\ last.original.useGPU
====
